---------------------------- MODULE Spec2Model ----------------------------
(***************************************************************************)
(* Model of the folder server of "src/file explore/basic_file_server.py":  *)
(* the path check sanitize_path and the four tools built on it (file_read, *)
(* file_write, file_delete, folder_analysis), run against a POSIX file     *)
(* system (os.path is posixpath, os.linesep is "\n").                      *)
(*                                                                         *)
(* A path string is a sequence of one-character strings, so that           *)
(* str.lstrip, os.path.join, os.path.abspath and str.startswith are        *)
(* computed character by character as Python computes them.  A name is the *)
(* character sequence of one path component; a node of the file system is  *)
(* addressed by the sequence of names from "/" down.                       *)
(*                                                                         *)
(* Specifications: Spec (the tools called one after the other), SpecPath   *)
(* (sanitize_path alone), SpecTree (folder_analysis over a tree of two     *)
(* levels), SpecContext (the tools with a context whose calls can fail)    *)
(* and SpecConc (calls in flight at once, interleaved at their awaits).    *)
(***************************************************************************)
EXTENDS Integers, Sequences, FiniteSets, TLC

(***************************************************************************)
(* Bounds of the model.                                                    *)
(***************************************************************************)
\* longest caller-supplied path, in components, that SanitizeCall is given
MaxSegs == 3
\* longest text, in characters, of a written content (before its padding)
MaxText == 1
\* most files the pre-existing directory "b" holds
MaxBulk == 60

(***************************************************************************)
(* Program constants.                                                      *)
(***************************************************************************)
\* The resolved sandbox root; the deployment sets it, here "/r".
ALLOWED_BASE_PATH == <<"/", "r">>
MAX_FILE_SIZE == 10 * 1024 * 1024
\* The slice files[:50] of folder_analysis.
ListingCap == 50

(***************************************************************************)
(* Python string functions.                                                *)
(***************************************************************************)
SEP == "/"
BACKSLASH == "\\"
DOT == <<".">>
DOTDOT == <<".", ".">>

Last(s) == s[Len(s)]
Front(s) == SubSeq(s, 1, Len(s) - 1)

\* str.startswith
startswith(s, prefix) ==
    /\ Len(prefix) <= Len(s)
    /\ SubSeq(s, 1, Len(prefix)) = prefix

\* str.lstrip(c) for a one-character argument
RECURSIVE lstrip(_, _)
lstrip(s, c) ==
    IF s # <<>> /\ Head(s) = c THEN lstrip(Tail(s), c) ELSE s

\* str.split(sep): the pieces between the separators, empty pieces included
RECURSIVE SplitFrom(_, _, _)
SplitFrom(s, sep, cur) ==
    IF s = <<>> THEN <<cur>>
    ELSE IF Head(s) = sep THEN <<cur>> \o SplitFrom(Tail(s), sep, <<>>)
    ELSE SplitFrom(Tail(s), sep, Append(cur, Head(s)))

split(s, sep) == SplitFrom(s, sep, <<>>)

\* sep.join(comps)
RECURSIVE join_str(_, _)
join_str(sep, comps) ==
    IF comps = <<>> THEN <<>>
    ELSE IF Len(comps) = 1 THEN Head(comps)
    ELSE Head(comps) \o <<sep>> \o join_str(sep, Tail(comps))

(***************************************************************************)
(* posixpath.                                                              *)
(***************************************************************************)
\* os.path.join(a, p)
path_join(a, p) ==
    IF startswith(p, <<SEP>>) THEN p
    ELSE IF a = <<>> \/ Last(a) = SEP THEN a \o p
    ELSE a \o <<SEP>> \o p

\* the loop of os.path.normpath over the split components
RECURSIVE NormComps(_, _, _)
NormComps(comps, initial_slashes, new_comps) ==
    IF comps = <<>> THEN new_comps
    ELSE LET comp == Head(comps)
             rest == Tail(comps)
         IN  IF comp = <<>> \/ comp = DOT
             THEN NormComps(rest, initial_slashes, new_comps)
             ELSE IF \/ comp # DOTDOT
                     \/ (initial_slashes = 0 /\ new_comps = <<>>)
                     \/ (new_comps # <<>> /\ Last(new_comps) = DOTDOT)
             THEN NormComps(rest, initial_slashes, Append(new_comps, comp))
             ELSE IF new_comps # <<>>
             THEN NormComps(rest, initial_slashes, Front(new_comps))
             ELSE NormComps(rest, initial_slashes, new_comps)

\* os.path.normpath
normpath(path) ==
    IF path = <<>> THEN DOT
    ELSE LET initial_slashes ==
                 IF ~startswith(path, <<SEP>>) THEN 0
                 ELSE IF startswith(path, <<SEP, SEP>>)
                         /\ ~startswith(path, <<SEP, SEP, SEP>>) THEN 2
                 ELSE 1
             joined == join_str(SEP, NormComps(split(path, SEP), initial_slashes, <<>>))
             out == IF initial_slashes = 2 THEN <<SEP, SEP>> \o joined
                    ELSE IF initial_slashes = 1 THEN <<SEP>> \o joined
                    ELSE joined
         IN  IF out = <<>> THEN DOT ELSE out

\* os.path.abspath of a path that is already absolute: every argument the
\* server passes starts with ALLOWED_BASE_PATH or with "/", so the join with
\* the working directory never happens.
abspath(path) == normpath(path)

\* os.path.dirname
RECURSIVE rstrip(_, _)
rstrip(s, c) ==
    IF s # <<>> /\ Last(s) = c THEN rstrip(Front(s), c) ELSE s

RECURSIVE LastIndexOf(_, _)
LastIndexOf(s, c) ==
    IF s = <<>> THEN 0
    ELSE IF Last(s) = c THEN Len(s)
    ELSE LastIndexOf(Front(s), c)

dirname(p) ==
    LET i == LastIndexOf(p, SEP)
        head == SubSeq(p, 1, i)
    IN  IF head # <<>> /\ rstrip(head, SEP) # <<>> THEN rstrip(head, SEP) ELSE head

(***************************************************************************)
(* sanitize_path: the join under the root, the normalisation and the       *)
(* prefix test.  The result is [ok |-> TRUE, path |-> full_path] or the    *)
(* ValueError, [ok |-> FALSE, message |-> ...].                            *)
(***************************************************************************)
MsgOutside == "Access outside allowed directory"

\* sanitize_path with the root itself refused: only paths below it pass
sanitize_path_below_only(path) ==
    LET full_path == abspath(path_join(ALLOWED_BASE_PATH,
                                       lstrip(lstrip(path, SEP), BACKSLASH)))
    IN  IF ~startswith(full_path, ALLOWED_BASE_PATH \o <<SEP>>)
        THEN [ok |-> FALSE, message |-> MsgOutside]
        ELSE [ok |-> TRUE, path |-> full_path]

sanitize_path(path) ==
    LET full_path == abspath(path_join(ALLOWED_BASE_PATH,
                                       lstrip(lstrip(path, SEP), BACKSLASH)))
    IN  IF ~startswith(full_path, ALLOWED_BASE_PATH)
        THEN [ok |-> FALSE, message |-> MsgOutside]
        ELSE [ok |-> TRUE, path |-> full_path]

(***************************************************************************)
(* File contents.  A content is its first characters `text' followed by    *)
(* `pad' more characters "a", which lets a content of MAX_FILE_SIZE        *)
(* characters be written down.  The characters are "a" (one byte in        *)
(* UTF-8), "u" (standing for a two-byte character such as U+00E9), "\r"    *)
(* and "\n".  The value None of the optional field is NoContent.           *)
(***************************************************************************)
Char == {"a", "u", "\r", "\n"}
NoContent == [none |-> TRUE]
Str(text, pad) == [text |-> text, pad |-> pad]

\* the characters "a" at the end of the text belong to the padding
RECURSIVE Canon(_)
Canon(c) ==
    IF c.text # <<>> /\ Last(c.text) = "a"
    THEN Canon(Str(Front(c.text), c.pad + 1))
    ELSE c

\* Python's truth value of op.content: None and "" are false
Truthy(c) == c # NoContent /\ (c.text # <<>> \/ c.pad > 0)

\* os.linesep
linesep == <<"\n">>

\* what a text-mode file object writes for the characters of `text':
\* newline=None translates every "\n" to os.linesep
RECURSIVE TranslateOut(_)
TranslateOut(text) ==
    IF text = <<>> THEN <<>>
    ELSE IF Head(text) = "\n" THEN linesep \o TranslateOut(Tail(text))
    ELSE <<Head(text)>> \o TranslateOut(Tail(text))

\* what a text-mode file object returns for the stored characters:
\* newline=None reads "\r\n" and "\r" as "\n"
RECURSIVE TranslateIn(_)
TranslateIn(text) ==
    IF text = <<>> THEN <<>>
    ELSE IF Head(text) = "\r"
    THEN IF Len(text) >= 2 /\ text[2] = "\n"
         THEN <<"\n">> \o TranslateIn(Tail(Tail(text)))
         ELSE <<"\n">> \o TranslateIn(Tail(text))
    ELSE <<Head(text)>> \o TranslateIn(Tail(text))

\* f.write(content) of a file opened with 'w', encoding='utf-8'
EncodeText(c) == Str(TranslateOut(c.text), c.pad)
\* f.read() of a file opened with 'r', encoding='utf-8'
DecodeText(data) == Str(TranslateIn(data.text), data.pad)

\* bytes of one character in UTF-8
Utf8Width(ch) == IF ch = "u" THEN 2 ELSE 1

RECURSIVE Utf8Len(_)
Utf8Len(text) ==
    IF text = <<>> THEN 0 ELSE Utf8Width(Head(text)) + Utf8Len(Tail(text))

\* the size in bytes of stored data
ByteSize(data) == Utf8Len(data.text) + data.pad

(***************************************************************************)
(* The file system: a function from node addresses (sequences of names,    *)
(* <<>> being "/") to nodes.  Every node but "/" has its parent in the     *)
(* domain, and the parent is a directory.                                  *)
(***************************************************************************)
DirNode == [kind |-> "dir"]
\* a directory without the permission to read it: its entries can be
\* reached by name but it cannot be listed
ClosedDirNode == [kind |-> "dir", mode |-> "-wx"]
FileNode(data) == [kind |-> "file", data |-> data]
LinkNode(target) == [kind |-> "link", target |-> target]

OsOk(f) == [ok |-> TRUE, fs |-> f]
OsError(msg) == [ok |-> FALSE, message |-> msg]
ENOENT == "[Errno 2] No such file or directory"
EEXIST == "[Errno 17] File exists"
ENOTDIR == "[Errno 20] Not a directory"
EISDIR == "[Errno 21] Is a directory"

\* the names of a path string, as the kernel walks them
Names(p) == SelectSeq(split(p, SEP), LAMBDA c : c # <<>>)

\* the node `names' leads to from node `at', every symbolic link followed
RECURSIVE Resolve(_, _, _)
Resolve(f, at, names) ==
    IF names = <<>> THEN at
    ELSE LET n == Append(at, Head(names))
         IN  IF n \in DOMAIN f /\ f[n].kind = "link"
             THEN Resolve(f, f[n].target, Tail(names))
             ELSE Resolve(f, n, Tail(names))

\* the node a path names when the last name, if a link, is not followed
EntryOf(f, p) ==
    LET ns == Names(p)
    IN  IF ns = <<>> THEN <<>>
        ELSE Append(Resolve(f, <<>>, Front(ns)), Last(ns))

\* the node a path names, links followed
NodeOf(f, p) == Resolve(f, <<>>, Names(p))

exists(f, p) == NodeOf(f, p) \in DOMAIN f
isfile(f, p) == exists(f, p) /\ f[NodeOf(f, p)].kind = "file"
isdir(f, p) == exists(f, p) /\ f[NodeOf(f, p)].kind = "dir"
islink(f, p) == EntryOf(f, p) \in DOMAIN f /\ f[EntryOf(f, p)].kind = "link"
getsize(f, p) == ByteSize(f[NodeOf(f, p)].data)

\* what creating an entry at `node' fails with, "" when it can be created
CreateError(f, node) ==
    IF node \in DOMAIN f THEN EEXIST
    ELSE IF Front(node) \notin DOMAIN f THEN ENOENT
    ELSE IF f[Front(node)].kind # "dir" THEN ENOTDIR
    ELSE ""

\* os.mkdir
mkdir(f, p) ==
    LET node == EntryOf(f, p)
        err == IF node = <<>> THEN EEXIST ELSE CreateError(f, node)
    IN  IF err # "" THEN OsError(err) ELSE OsOk((node :> DirNode) @@ f)

\* os.makedirs(name, exist_ok=True)
RECURSIVE makedirs(_, _)
makedirs(f, name) ==
    LET head == dirname(name)
        tail == SubSeq(name, LastIndexOf(name, SEP) + 1, Len(name))
        up == IF head # <<>> /\ tail # <<>> /\ ~exists(f, head)
              THEN makedirs(f, head)
              ELSE OsOk(f)
    IN  IF ~up.ok THEN up
        ELSE LET made == mkdir(up.fs, name)
             IN  IF made.ok THEN made
                 ELSE IF isdir(up.fs, name) THEN up
                 ELSE made

\* open(p, 'r+') and the write: the file is not truncated, and what an old
\* content has beyond the new one stays
open_write_untruncated(f, p, data) ==
    LET node == NodeOf(f, p)
    IN  IF node \in DOMAIN f
        THEN IF f[node].kind = "dir" THEN OsError(EISDIR)
             ELSE OsOk([f EXCEPT ![node] = FileNode(
                      IF f[node].kind = "file" /\ ByteSize(f[node].data) > ByteSize(data)
                      THEN Str(data.text, data.pad + ByteSize(f[node].data) - ByteSize(data))
                      ELSE data)])
        ELSE IF node = <<>> \/ CreateError(f, node) # ""
        THEN OsError(IF node = <<>> THEN EISDIR ELSE CreateError(f, node))
        ELSE OsOk((node :> FileNode(data)) @@ f)

\* open(p, 'w') followed by the write of `data' and the close
open_write(f, p, data) ==
    LET node == NodeOf(f, p)
    IN  IF node \in DOMAIN f
        THEN IF f[node].kind = "dir" THEN OsError(EISDIR)
             ELSE OsOk([f EXCEPT ![node] = FileNode(data)])
        ELSE IF node = <<>> \/ CreateError(f, node) # ""
        THEN OsError(IF node = <<>> THEN EISDIR ELSE CreateError(f, node))
        ELSE OsOk((node :> FileNode(data)) @@ f)

\* open(p, 'r') and the read of all of it: the stored data, or the error
open_read(f, p) ==
    LET node == NodeOf(f, p)
    IN  IF node \notin DOMAIN f
        THEN OsError(IF Front(node) \in DOMAIN f /\ f[Front(node)].kind # "dir"
                     THEN ENOTDIR ELSE ENOENT)
        ELSE IF f[node].kind = "dir" THEN OsError(EISDIR)
        ELSE [ok |-> TRUE, data |-> f[node].data]

\* os.remove that takes a missing entry for removed
remove_missing_ok(f, p) ==
    LET node == EntryOf(f, p)
    IN  IF node \notin DOMAIN f THEN OsOk(f)
        ELSE IF f[node].kind = "dir" THEN OsError(EISDIR)
        ELSE OsOk([n \in DOMAIN f \ {node} |-> f[n]])

\* os.remove: unlinks the entry itself, a link included; never a directory
remove(f, p) ==
    LET node == EntryOf(f, p)
    IN  IF node \notin DOMAIN f THEN OsError(ENOENT)
        ELSE IF f[node].kind = "dir" THEN OsError(EISDIR)
        ELSE OsOk([n \in DOMAIN f \ {node} |-> f[n]])

\* os.path.relpath(path, start)
RECURSIVE CommonLen(_, _)
CommonLen(a, b) ==
    IF a = <<>> \/ b = <<>> \/ Head(a) # Head(b) THEN 0
    ELSE 1 + CommonLen(Tail(a), Tail(b))

relpath(path, start) ==
    LET start_list == Names(abspath(start))
        path_list == Names(abspath(path))
        i == CommonLen(start_list, path_list)
        rel_list == [k \in 1..(Len(start_list) - i) |-> DOTDOT]
                        \o SubSeq(path_list, i + 1, Len(path_list))
    IN  IF rel_list = <<>> THEN DOT ELSE join_str(SEP, rel_list)

\* os.scandir: the names in a directory, in an order that is fixed for a
\* given set of entries and otherwise arbitrary
RECURSIVE InScanOrder(_)
InScanOrder(names) ==
    IF names = {} THEN <<>>
    ELSE LET first == CHOOSE n \in names : TRUE
         IN  <<first>> \o InScanOrder(names \ {first})

scandir(f, p) ==
    LET node == NodeOf(f, p)
    IN  InScanOrder({Last(n) : n \in {m \in DOMAIN f : m # <<>> /\ Front(m) = node}})

\* os.scandir raises PermissionError on a directory that cannot be read
listable(f, p) == "mode" \notin DOMAIN f[NodeOf(f, p)]

\* os.walk(top), top-down, followlinks=False, onerror=None: the (root,
\* filenames) pairs.  An entry that is a directory, directly or through a
\* link, is listed with the directories; a linked directory is not walked
\* into; a directory whose os.scandir raises is left out without an error.
RECURSIVE walk(_, _)
RECURSIVE WalkEach(_, _, _)
\* a walk that stops at the first directory
walk_top_only(f, top) ==
    <<[root |-> top,
       filenames |-> SelectSeq(InScanOrder({Last(n) : n \in {m \in DOMAIN f :
                                   m # <<>> /\ Front(m) = NodeOf(f, top)}}),
                               LAMBDA n : ~isdir(f, path_join(top, n)))]>>

\* a walk that lists the directory a link leads to as well
RECURSIVE WalkEach_into_links(_, _, _)
WalkEach_into_links(f, top, dirs) ==
    IF dirs = <<>> THEN <<>>
    ELSE LET new_path == path_join(top, Head(dirs))
         IN  (IF islink(f, new_path) THEN walk_top_only(f, new_path)
              ELSE walk(f, new_path))
                 \o WalkEach_into_links(f, top, Tail(dirs))

WalkEach(f, top, dirs) ==
    IF dirs = <<>> THEN <<>>
    ELSE LET new_path == path_join(top, Head(dirs))
         IN  (IF islink(f, new_path) THEN <<>> ELSE walk(f, new_path))
                 \o WalkEach(f, top, Tail(dirs))

walk(f, top) ==
    LET entries == scandir(f, top)
        dirs == SelectSeq(entries, LAMBDA n : isdir(f, path_join(top, n)))
        nondirs == SelectSeq(entries, LAMBDA n : ~isdir(f, path_join(top, n)))
    IN  IF ~listable(f, top) THEN <<>>
        ELSE <<[root |-> top, filenames |-> nondirs]>> \o WalkEach(f, top, dirs)

(***************************************************************************)
(* The tools.  Each is given the file system and the request, and yields   *)
(* the reply, the file system it leaves and the progress it reported.      *)
(* The checks a tool makes before its midpoint progress report and the     *)
(* action it takes after it are separate operators: the first yields a     *)
(* reply (done) or the safe path the action goes on with.                  *)
(***************************************************************************)
Error(msg) == [status |-> "error", message |-> msg]
Reply(r, f) == [done |-> TRUE, result |-> r, fs |-> f]
GoOn(safe_path, f) == [done |-> FALSE, safe_path |-> safe_path, fs |-> f]
Out(r, f, ticks) == [result |-> r, fs |-> f, progress |-> ticks]

MsgNotFound == "File not found"
MsgNotAFile == "Path is not a file"
MsgTooLarge == "File too large"
MsgContentRequired == "Content is required"
MsgFolderNotFound == "Folder not found"
MsgNotADirectory == "Path is not a directory"

\* file_read, line 90, and the same test with the limit itself refused
TooLargeMutant(size) == size >= MAX_FILE_SIZE
\* the limit taken twice too high
TooLargeTwice(size) == size > MAX_FILE_SIZE * 2
TooLarge(size) == size > MAX_FILE_SIZE

\* file_read, lines 81-92, with the test of the type before the test of
\* existence
read_checks_type_first(f, op) ==
    LET sp == sanitize_path(op.path)
    IN  IF ~sp.ok THEN Reply(Error(sp.message), f)
        ELSE IF ~isfile(f, sp.path) THEN Reply(Error(MsgNotAFile), f)
        ELSE IF ~exists(f, sp.path) THEN Reply(Error(MsgNotFound), f)
        ELSE IF TooLarge(getsize(f, sp.path)) THEN Reply(Error(MsgTooLarge), f)
        ELSE GoOn(sp.path, f)

\* file_read, lines 81-92
read_checks(f, op) ==
    LET sp == sanitize_path(op.path)
    IN  IF ~sp.ok THEN Reply(Error(sp.message), f)
        ELSE IF ~exists(f, sp.path) THEN Reply(Error(MsgNotFound), f)
        ELSE IF ~isfile(f, sp.path) THEN Reply(Error(MsgNotAFile), f)
        ELSE IF TooLarge(getsize(f, sp.path)) THEN Reply(Error(MsgTooLarge), f)
        ELSE GoOn(sp.path, f)

\* file_read, lines 94-106, with a file that cannot be opened read as empty
read_action_swallowing(f, safe_path, op) ==
    LET opened == open_read(f, safe_path)
    IN  Out([status |-> "success", path |-> op.path,
             content |-> IF opened.ok THEN DecodeText(opened.data) ELSE Str(<<>>, 0)],
            f, <<50, 100>>)

\* file_read, lines 94-106
read_action(f, safe_path, op) ==
    LET opened == open_read(f, safe_path)
    IN  IF ~opened.ok THEN Out(Error(opened.message), f, <<50>>)
        ELSE Out([status |-> "success", path |-> op.path,
                  content |-> DecodeText(opened.data)], f, <<50, 100>>)

file_read(f, op) ==
    LET c == read_checks(f, op)
    IN  IF c.done THEN Out(c.result, c.fs, <<>>)
        ELSE read_action(c.fs, c.safe_path, op)

\* file_write, line 125, and the same test letting the empty string through
ContentMissingMutant(content) == content = NoContent
ContentMissing(content) == ~Truthy(content)

\* file_write, lines 125-130, with the directories made before the content
\* is looked at
write_checks_dirs_first(f, op) ==
    LET sp == sanitize_path(op.path)
    IN  IF ~sp.ok THEN Reply(Error(sp.message), f)
        ELSE LET made == makedirs(f, dirname(sp.path))
             IN  IF ~made.ok THEN Reply(Error(made.message), f)
                 ELSE IF ContentMissing(op.content)
                 THEN Reply(Error(MsgContentRequired), made.fs)
                 ELSE GoOn(sp.path, made.fs)

\* file_write, lines 125-130, with the size limit of file_read put on the
\* content
write_checks_limited(f, op) ==
    LET sp == sanitize_path(op.path)
    IN  IF ContentMissing(op.content) THEN Reply(Error(MsgContentRequired), f)
        ELSE IF TooLarge(ByteSize(EncodeText(op.content)))
        THEN Reply(Error(MsgTooLarge), f)
        ELSE IF ~sp.ok THEN Reply(Error(sp.message), f)
        ELSE LET made == makedirs(f, dirname(sp.path))
             IN  IF ~made.ok THEN Reply(Error(made.message), f)
                 ELSE GoOn(sp.path, made.fs)

\* file_write, lines 125-130
write_checks(f, op) ==
    IF ContentMissing(op.content) THEN Reply(Error(MsgContentRequired), f)
    ELSE LET sp == sanitize_path(op.path)
         IN  IF ~sp.ok THEN Reply(Error(sp.message), f)
             ELSE LET made == makedirs(f, dirname(sp.path))
                  IN  IF ~made.ok THEN Reply(Error(made.message), f)
                      ELSE GoOn(sp.path, made.fs)

\* file_write, lines 132-144, with the error of the open swallowed
write_action_swallowing(f, safe_path, op) ==
    LET written == open_write(f, safe_path, EncodeText(op.content))
    IN  Out([status |-> "success", path |-> op.path,
             message |-> "File written successfully"],
            IF written.ok THEN written.fs ELSE f, <<50, 100>>)

\* file_write, lines 132-144
write_action(f, safe_path, op) ==
    LET written == open_write(f, safe_path, EncodeText(op.content))
    IN  IF ~written.ok THEN Out(Error(written.message), f, <<50>>)
        ELSE Out([status |-> "success", path |-> op.path,
                  message |-> "File written successfully"], written.fs, <<50, 100>>)

file_write(f, op) ==
    LET c == write_checks(f, op)
    IN  IF c.done THEN Out(c.result, c.fs, <<>>)
        ELSE write_action(c.fs, c.safe_path, op)

\* file_delete, lines 163-169, and the same checks without the test that
\* the path exists
delete_checks_unchecked(f, op) ==
    LET sp == sanitize_path(op.path)
    IN  IF ~sp.ok THEN Reply(Error(sp.message), f)
        ELSE IF exists(f, sp.path) /\ ~isfile(f, sp.path)
        THEN Reply(Error(MsgNotAFile), f)
        ELSE GoOn(sp.path, f)

\* the same checks without the test that the path is a regular file
delete_checks_any_type(f, op) ==
    LET sp == sanitize_path(op.path)
    IN  IF ~sp.ok THEN Reply(Error(sp.message), f)
        ELSE IF ~exists(f, sp.path) THEN Reply(Error(MsgNotFound), f)
        ELSE GoOn(sp.path, f)

\* the same checks going on with the joined path when sanitize_path refuses
delete_checks_ignoring_refusal(f, op) ==
    LET full_path == abspath(path_join(ALLOWED_BASE_PATH,
                                       lstrip(lstrip(op.path, SEP), BACKSLASH)))
    IN  IF ~exists(f, full_path) THEN Reply(Error(MsgNotFound), f)
        ELSE IF ~isfile(f, full_path) THEN Reply(Error(MsgNotAFile), f)
        ELSE GoOn(full_path, f)

\* file_delete, lines 163-169
delete_checks(f, op) ==
    LET sp == sanitize_path(op.path)
    IN  IF ~sp.ok THEN Reply(Error(sp.message), f)
        ELSE IF ~exists(f, sp.path) THEN Reply(Error(MsgNotFound), f)
        ELSE IF ~isfile(f, sp.path) THEN Reply(Error(MsgNotAFile), f)
        ELSE GoOn(sp.path, f)

\* file_delete, lines 171-182
delete_action(f, safe_path, op) ==
    LET removed == remove(f, safe_path)
    IN  IF ~removed.ok THEN Out(Error(removed.message), f, <<50>>)
        ELSE Out([status |-> "success", path |-> op.path,
                  message |-> "File deleted successfully"], removed.fs, <<50, 100>>)

file_delete(f, op) ==
    LET c == delete_checks(f, op)
    IN  IF c.done THEN Out(c.result, c.fs, <<>>)
        ELSE delete_action(c.fs, c.safe_path, op)

\* folder_analysis, lines 201-207
analysis_checks(f, folder) ==
    LET sp == sanitize_path(folder.path)
    IN  IF ~sp.ok THEN Reply(Error(sp.message), f)
        ELSE IF ~exists(f, sp.path) THEN Reply(Error(MsgFolderNotFound), f)
        ELSE IF ~isdir(f, sp.path) THEN Reply(Error(MsgNotADirectory), f)
        ELSE GoOn(sp.path, f)

\* folder_analysis, lines 216-225: the record appended for one file name
FileRecord(f, root, filename) ==
    LET file_path == path_join(root, filename)
    IN  [name |-> filename,
         path |-> relpath(file_path, ALLOWED_BASE_PATH),
         size |-> getsize(f, file_path)]

\* folder_analysis, lines 227-228: the progress reported after file i + 1 of
\* the n file names of one directory, for every i with (i + 1) % 10 = 0
ProgressAfter(i, n) ==
    LET scaled == ((i + 1) * 90) \div n
    IN  IF scaled < 90 THEN scaled ELSE 90

RECURSIVE SumSizes(_)
SumSizes(records) ==
    IF records = <<>> THEN 0
    ELSE Head(records).size + SumSizes(Tail(records))

\* folder_analysis, lines 215-228: the loop over the file names of one
\* directory of the walk, by what it adds to files, total_size, file_count
\* and to the progress reported
AnalyseNames(f, root, filenames, acc) ==
    LET n == Len(filenames)
        records == [i \in 1..n |-> FileRecord(f, root, filenames[i])]
    IN  [files |-> acc.files \o records,
         total_size |-> acc.total_size + SumSizes(records),
         file_count |-> acc.file_count + n,
         progress |-> acc.progress
                          \o [k \in 1..(n \div 10) |-> ProgressAfter(10 * k - 1, n)]]

\* folder_analysis, line 214: the loop over the directories of the walk
RECURSIVE AnalyseWalk(_, _, _)
AnalyseWalk(f, walked, acc) ==
    IF walked = <<>> THEN acc
    ELSE AnalyseWalk(f, Tail(walked),
             AnalyseNames(f, Head(walked).root, Head(walked).filenames, acc))

\* folder_analysis, line 237: files[:50], and the slice one entry short
ListingMutant(files) ==
    SubSeq(files, 1, IF Len(files) < ListingCap - 1 THEN Len(files) ELSE ListingCap - 1)

Listing(files) ==
    SubSeq(files, 1, IF Len(files) < ListingCap THEN Len(files) ELSE ListingCap)

\* folder_analysis, lines 209-242.  The record of a file carries its name,
\* its path relative to the root and its size; its modification time is
\* left out of the model.
analysis_action(f, safe_path, folder) ==
    LET acc == AnalyseWalk(f, walk(f, safe_path),
                   [files |-> <<>>, total_size |-> 0, file_count |-> 0,
                    progress |-> <<0>>])
    IN  Out([status |-> "success", path |-> folder.path,
             file_count |-> acc.file_count, total_size |-> acc.total_size,
             files |-> Listing(acc.files),
             message |-> "Folder analysis completed"],
            f, Append(acc.progress, 100))

folder_analysis(f, folder) ==
    LET c == analysis_checks(f, folder)
    IN  IF c.done THEN Out(c.result, c.fs, <<>>)
        ELSE analysis_action(c.fs, c.safe_path, folder)

(***************************************************************************)
(* The state: the file system, the last request served with its reply and  *)
(* the progress reported while serving it.  `payload' is the content the   *)
(* callers of this run write (drawn at the start); `deleted' and           *)
(* `deletedClean' are history: the nodes a successful file_delete removed, *)
(* with no file_write to that node since (deleted), and with no file_write *)
(* to that node or to a node below it since (deletedClean).  `db' is the   *)
(* state of the PostgreSQL server: its global db_pool and the pools made.  *)
(***************************************************************************)
VARIABLES fs, call, res, progress, payload, deleted, deletedClean, waiting, db

vars == <<fs, call, res, progress, payload, deleted, deletedClean, waiting, db>>

\* db_pool = None (line 24), no pool made yet
NoPool == 0
NoDb == [db_pool |-> NoPool, pools |-> <<>>]

\* The callers whose calls can be in flight at once.  `waiting' holds, for
\* each caller, the call it has suspended at the await of
\* ctx.report_progress(50, 100), or Idle.
MaxCallers == 3
Callers == 1..MaxCallers
Idle == [op |-> "none"]
NobodyWaiting == [p \in Callers |-> Idle]

\* names of the nodes the runs start with
R == <<"r">>
R2 == <<"r", "2">>
E == <<"e">>
P == <<"p">>
L == <<"l">>
B == <<"b">>
D == <<"d">>
F == <<"f">>
X == <<"x">>

Digits == <<"0", "1", "2", "3", "4", "5", "6", "7", "8", "9">>
BulkName(k) == <<"n", Digits[(k \div 10) + 1], Digits[(k % 10) + 1]>>

RootNode == Names(ALLOWED_BASE_PATH)

\* The file system a run starts in: the root "/r" (made at startup, line
\* 310) holding the directory "b" with n one-byte files and the link "l" to
\* the directory "/e"; outside the root, "/e" with the file "p" and the
\* sibling directory "/r2".
StartFs(n) ==
    [node \in {<<R, B, BulkName(k)>> : k \in 0..(n - 1)} |-> FileNode(Str(<<>>, 1))]
        @@ (<<>> :> DirNode)
        @@ (<<R>> :> DirNode)
        @@ (<<R, B>> :> DirNode)
        @@ (<<R, L>> :> LinkNode(<<E>>))
        @@ (<<E>> :> DirNode)
        @@ (<<E, P>> :> FileNode(Str(<<"u">>, 2)))
        @@ (<<R2>> :> DirNode)

BulkCounts == {0, ListingCap - 1, ListingCap, MaxBulk}

\* the texts of at most n characters
RECURSIVE Texts(_)
Texts(n) ==
    IF n = 0 THEN {<<>>}
    ELSE Texts(n - 1) \cup {Append(t, ch) : t \in {u \in Texts(n - 1) : Len(u) = n - 1}, ch \in Char}

\* the non-empty contents a run may write: the short texts, and contents
\* whose size in characters or in bytes is at the limit of file_read
Payloads ==
    {Str(t, 0) : t \in Texts(MaxText) \ {<<>>}}
        \cup {Str(t, MAX_FILE_SIZE + k) : t \in {<<>>, <<"u">>}, k \in {-2, -1, 0, 1}}

\* what a caller may pass as content
ContentInputs == {NoContent, Str(<<>>, 0), payload}

\* the paths the callers of the tools pass
OpPaths ==
    { D,                                      \* d
      D \o <<SEP>> \o F,                      \* d/f
      <<>>,                                   \* the root itself
      DOTDOT \o <<SEP>> \o R2 \o <<SEP>> \o X, \* ../r2/x
      DOTDOT \o <<SEP>> \o E \o <<SEP>> \o P } \* ../e/p

NoCall == [op |-> "none", path |-> <<>>, content |-> NoContent]
NoReply == [status |-> "none"]

Init ==
    /\ \E n \in BulkCounts, c \in Payloads :
          /\ (n = 0 \/ c = Str(<<"u">>, 0))
          /\ fs = StartFs(n)
          /\ payload = c
    /\ call = NoCall
    /\ res = NoReply
    /\ progress = <<>>
    /\ deleted = {}
    /\ deletedClean = {}
    /\ waiting = NobodyWaiting
    /\ db = NoDb

Request(op, path, content) == [op |-> op, path |-> path, content |-> content]

Finish(req, out) ==
    /\ call' = req
    /\ res' = out.result
    /\ progress' = out.progress
    /\ fs' = out.fs
    /\ UNCHANGED <<waiting, db>>

\* the node a request's path names, when sanitize_path gives a safe path
TargetOf(f, path) ==
    LET sp == sanitize_path(path) IN IF sp.ok THEN {NodeOf(f, sp.path)} ELSE {}

\* node m is node n or lies below it
AtOrBelow(m, n) == Len(n) <= Len(m) /\ SubSeq(m, 1, Len(n)) = n

Read(path) ==
    LET req == Request("file_read", path, NoContent)
    IN  /\ Finish(req, file_read(fs, req))
        /\ UNCHANGED <<payload, deleted, deletedClean>>

Write(path, content) ==
    LET req == Request("file_write", path, content)
    IN  /\ Finish(req, file_write(fs, req))
        /\ deleted' = deleted \ TargetOf(fs, path)
        /\ deletedClean' =
               {n \in deletedClean : \A m \in TargetOf(fs, path) : ~AtOrBelow(m, n)}
        /\ UNCHANGED payload

Delete(path) ==
    LET req == Request("file_delete", path, NoContent)
        out == file_delete(fs, req)
        done == IF out.result.status = "success" THEN TargetOf(fs, path) ELSE {}
    IN  /\ Finish(req, out)
        /\ deleted' = deleted \cup done
        /\ deletedClean' = deletedClean \cup done
        /\ UNCHANGED payload

Analyse(path) ==
    LET req == Request("folder_analysis", path, NoContent)
    IN  /\ Finish(req, folder_analysis(fs, req))
        /\ UNCHANGED <<payload, deleted, deletedClean>>

Next ==
    \E path \in OpPaths :
        \/ Read(path)
        \/ \E content \in ContentInputs : Write(path, content)
        \/ Delete(path)
        \/ Analyse(path)

Spec == Init /\ [][Next]_vars

(***************************************************************************)
(* folder_analysis over a tree of two levels, "b" and below it "b/s", each *)
(* holding up to MaxDirFiles files.                                        *)
(***************************************************************************)
MaxDirFiles == 12

S == <<"s">>

TreeFs(n1, n2) ==
    [node \in {<<R, B, BulkName(k)>> : k \in 0..(n1 - 1)}
                  \cup {<<R, B, S, BulkName(k)>> : k \in 0..(n2 - 1)}
          |-> FileNode(Str(<<>>, 1))]
        @@ (<<>> :> DirNode)
        @@ (<<R>> :> DirNode)
        @@ (<<R, B>> :> DirNode)
        @@ (<<R, B, S>> :> DirNode)

TreePaths == {<<>>, B, B \o <<SEP>> \o S, S, B \o <<SEP>> \o BulkName(0)}

\* the tree as it is, or with "b/s" closed to listing
InitTree ==
    /\ \E n1 \in 0..MaxDirFiles, n2 \in 0..MaxDirFiles :
           \/ fs = TreeFs(n1, n2)
           \/ fs = [TreeFs(n1, n2) EXCEPT ![<<R, B, S>>] = ClosedDirNode]
    /\ payload = Str(<<>>, 1)
    /\ call = NoCall
    /\ res = NoReply
    /\ progress = <<>>
    /\ deleted = {}
    /\ deletedClean = {}
    /\ waiting = NobodyWaiting
    /\ db = NoDb

NextTree == \E path \in TreePaths : Analyse(path)

SpecTree == InitTree /\ [][NextTree]_vars

(***************************************************************************)
(* The tools with a context whose calls can fail.  Each tool awaits        *)
(* ctx.info before its try block, ctx.report_progress inside it and        *)
(* ctx.error in its early returns and in its except block.  What a context *)
(* does to one call is told by three things: whether ctx.info raises,      *)
(* which call of ctx.report_progress is the first to raise (0 for none),   *)
(* and whether ctx.error raises.                                           *)
(***************************************************************************)
MaxTicks == 2

\* str(e) of the exception a closed session raises
ECLOSED == "Connection closed"

\* the exception leaves the tool: there is no reply
Raised(msg) == [status |-> "raised", message |-> msg]

Contexts == [info : BOOLEAN, error : BOOLEAN, tick : 0..MaxTicks]

\* the except block of a tool (lines 104-106, 142-144, 180-182, 240-242),
\* also reached when ctx.error raises in an early return inside the try
Caught(ctx, msg, f, ticks) ==
    IF ctx.error THEN Out(Raised(ECLOSED), f, ticks)
    ELSE Out(Error(msg), f, ticks)

\* the rest of a tool once its action has run with outcome a: the ticks,
\* the first of them before the action, and the reply
AfterAction(c, a, ctx) ==
    IF ctx.tick = 1
    THEN Caught(ctx, ECLOSED, c.fs, <<>>)
    ELSE IF ctx.tick \in 2..Len(a.progress)
    THEN Caught(ctx, ECLOSED, a.fs, SubSeq(a.progress, 1, ctx.tick - 1))
    ELSE IF a.result.status = "error"
    THEN Caught(ctx, a.result.message, a.fs, a.progress)
    ELSE a

\* file_read from its checks on, the checks having run with outcome c
read_after_checks(c, op, ctx) ==
    IF c.done THEN Caught(ctx, c.result.message, c.fs, <<>>)
    ELSE AfterAction(c, read_action(c.fs, c.safe_path, op), ctx)

\* file_read, lines 68-106, run with the context ctx
file_read_with(f, op, ctx) ==
    IF ctx.info THEN Out(Raised(ECLOSED), f, <<>>)
    ELSE read_after_checks(read_checks(f, op), op, ctx)

\* file_write from its checks on, the checks having run with outcome c
write_after_checks(c, op, ctx) ==
    IF c.done THEN Caught(ctx, c.result.message, c.fs, <<>>)
    ELSE AfterAction(c, write_action(c.fs, c.safe_path, op), ctx)

\* file_write, lines 112-144, run with the context ctx
file_write_with(f, op, ctx) ==
    IF ctx.info THEN Out(Raised(ECLOSED), f, <<>>)
    ELSE write_after_checks(write_checks(f, op), op, ctx)

\* file_delete from its checks on, the checks having run with outcome c
delete_after_checks(c, op, ctx) ==
    IF c.done THEN Caught(ctx, c.result.message, c.fs, <<>>)
    ELSE AfterAction(c, delete_action(c.fs, c.safe_path, op), ctx)

\* file_delete, lines 150-182, run with the context ctx
file_delete_with(f, op, ctx) ==
    IF ctx.info THEN Out(Raised(ECLOSED), f, <<>>)
    ELSE delete_after_checks(delete_checks(f, op), op, ctx)

\* folder_analysis from its checks on, the checks having run with outcome c
analysis_after_checks(c, op, ctx) ==
    IF c.done THEN Caught(ctx, c.result.message, c.fs, <<>>)
    ELSE AfterAction(c, analysis_action(c.fs, c.safe_path, op), ctx)

\* folder_analysis, lines 188-242, run with the context ctx
folder_analysis_with(f, op, ctx) ==
    IF ctx.info THEN Out(Raised(ECLOSED), f, <<>>)
    ELSE analysis_after_checks(analysis_checks(f, op), op, ctx)

ContextPaths == {D, D \o <<SEP>> \o F, DOTDOT \o <<SEP>> \o E \o <<SEP>> \o P}

InitContext ==
    /\ fs = StartFs(0)
    /\ payload = Str(<<"u">>, 0)
    /\ call = NoCall
    /\ res = NoReply
    /\ progress = <<>>
    /\ deleted = {}
    /\ deletedClean = {}
    /\ waiting = NobodyWaiting
    /\ db = NoDb

\* the request together with what the context did to it
RequestIn(op, path, content, ctx) ==
    [op |-> op, path |-> path, content |-> content, ctx |-> ctx]

ReadIn(path, ctx) ==
    LET req == RequestIn("file_read", path, NoContent, ctx)
    IN  /\ Finish(req, file_read_with(fs, req, ctx))
        /\ UNCHANGED <<payload, deleted, deletedClean>>

WriteIn(path, content, ctx) ==
    LET req == RequestIn("file_write", path, content, ctx)
    IN  /\ Finish(req, file_write_with(fs, req, ctx))
        /\ UNCHANGED <<payload, deleted, deletedClean>>

DeleteIn(path, ctx) ==
    LET req == RequestIn("file_delete", path, NoContent, ctx)
    IN  /\ Finish(req, file_delete_with(fs, req, ctx))
        /\ UNCHANGED <<payload, deleted, deletedClean>>

AnalyseIn(path, ctx) ==
    LET req == RequestIn("folder_analysis", path, NoContent, ctx)
    IN  /\ Finish(req, folder_analysis_with(fs, req, ctx))
        /\ UNCHANGED <<payload, deleted, deletedClean>>

NextContext ==
    \E path \in ContextPaths, ctx \in Contexts :
        \/ ReadIn(path, ctx)
        \/ \E content \in ContentInputs : WriteIn(path, content, ctx)
        \/ DeleteIn(path, ctx)
        \/ AnalyseIn(path, ctx)

SpecContext == InitContext /\ [][NextContext]_vars

(***************************************************************************)
(* Calls in flight at once.  The tools are coroutines of one event loop:   *)
(* one runs until it awaits, and only then can another run.  Between its   *)
(* checks and its action a tool awaits ctx.report_progress(50, 100) (lines *)
(* 94, 132, 171); its other awaits come before it first looks at the file  *)
(* system or after it last does.  A call is therefore two steps: Begin     *)
(* runs the checks and suspends the call, Resume runs the action.  `call'  *)
(* and `res' describe the step just taken.                                 *)
(***************************************************************************)
Pending == [status |-> "pending"]

ConcPaths == {D}

ConcPayloads == {Str(<<"u">>, 0), Str(<<"\r">>, 0), Str(<<>>, MAX_FILE_SIZE + 1)}

OtherContent == Str(<<>>, 2)

ConcContents == {payload, OtherContent}

InitConc ==
    /\ fs = StartFs(0)
    /\ payload \in ConcPayloads
    /\ call = NoCall
    /\ res = NoReply
    /\ progress = <<>>
    /\ deleted = {}
    /\ deletedClean = {}
    /\ waiting = NobodyWaiting
    /\ db = NoDb

RequestBy(p, step, op, path, content) ==
    [op |-> op, path |-> path, content |-> content, caller |-> p, step |-> step]

\* what the file a safe path names holds (history, kept with the suspended
\* call)
Holds(f, safe_path) ==
    IF isfile(f, safe_path) THEN f[NodeOf(f, safe_path)].data ELSE NoContent

\* the checks c of the request req of caller p have run
Begun(p, req, c) ==
    /\ waiting[p] = Idle
    /\ call' = req
    /\ fs' = c.fs
    /\ progress' = <<>>
    /\ UNCHANGED db
    /\ IF c.done
       THEN /\ res' = c.result
            /\ UNCHANGED waiting
       ELSE /\ res' = Pending
            /\ waiting' = [waiting EXCEPT ![p] =
                   [op |-> req.op, path |-> req.path, content |-> req.content,
                    safe_path |-> c.safe_path,
                    checked |-> Holds(fs, c.safe_path)]]

\* a call whose action failed stays suspended, to run its action again
Resumed_retrying(p, req, out) ==
    /\ call' = req
    /\ res' = out.result
    /\ fs' = out.fs
    /\ progress' = out.progress
    /\ waiting' = IF out.result.status = "error" THEN waiting
                  ELSE [waiting EXCEPT ![p] = Idle]
    /\ UNCHANGED db

\* the action of the suspended call of caller p has run, with outcome out
Resumed(p, req, out) ==
    /\ call' = req
    /\ res' = out.result
    /\ fs' = out.fs
    /\ progress' = out.progress
    /\ waiting' = [waiting EXCEPT ![p] = Idle]
    /\ UNCHANGED db

ResumeRequest(p) ==
    RequestBy(p, "resume", waiting[p].op, waiting[p].path, waiting[p].content)

BeginRead(p, path) ==
    LET req == RequestBy(p, "begin", "file_read", path, NoContent)
    IN  /\ Begun(p, req, read_checks(fs, req))
        /\ UNCHANGED <<payload, deleted, deletedClean>>

ResumeRead(p) ==
    /\ waiting[p].op = "file_read"
    /\ Resumed(p, ResumeRequest(p),
               read_action(fs, waiting[p].safe_path, ResumeRequest(p)))
    /\ UNCHANGED <<payload, deleted, deletedClean>>

BeginWrite(p, path, content) ==
    LET req == RequestBy(p, "begin", "file_write", path, content)
    IN  /\ Begun(p, req, write_checks(fs, req))
        /\ UNCHANGED <<payload, deleted, deletedClean>>

ResumeWrite(p) ==
    /\ waiting[p].op = "file_write"
    /\ Resumed(p, ResumeRequest(p),
               write_action(fs, waiting[p].safe_path, ResumeRequest(p)))
    /\ deleted' = deleted \ {NodeOf(fs, waiting[p].safe_path)}
    /\ deletedClean' =
           {n \in deletedClean :
                \A m \in {NodeOf(fs, waiting[p].safe_path)} : ~AtOrBelow(m, n)}
    /\ UNCHANGED payload

BeginDelete(p, path) ==
    LET req == RequestBy(p, "begin", "file_delete", path, NoContent)
    IN  /\ Begun(p, req, delete_checks(fs, req))
        /\ UNCHANGED <<payload, deleted, deletedClean>>

ResumeDelete(p) ==
    LET out == delete_action(fs, waiting[p].safe_path, ResumeRequest(p))
        done == IF out.result.status = "success"
                THEN {NodeOf(fs, waiting[p].safe_path)} ELSE {}
    IN  /\ waiting[p].op = "file_delete"
        /\ Resumed(p, ResumeRequest(p), out)
        /\ deleted' = deleted \cup done
        /\ deletedClean' = deletedClean \cup done
        /\ UNCHANGED payload

NextConc ==
    \E p \in Callers :
        \/ \E path \in ConcPaths : BeginRead(p, path)
        \/ \E path \in ConcPaths, content \in ConcContents : BeginWrite(p, path, content)
        \/ \E path \in ConcPaths : BeginDelete(p, path)
        \/ ResumeRead(p)
        \/ ResumeWrite(p)
        \/ ResumeDelete(p)

SpecConc == InitConc /\ [][NextConc]_vars

(***************************************************************************)
(* Calls in flight over a tree with a loop: the link "b/l" leads back to   *)
(* the root.  folder_analysis is two steps as well: its checks, the await  *)
(* of ctx.report_progress(0, 100) (line 212), then the walk (no directory  *)
(* here holds ten files, so the walk has no await of its own, line 227).   *)
(* The event loop runs every coroutine that is ready: a suspended call is  *)
(* resumed, which is weak fairness of each Resume step.                    *)
(***************************************************************************)
MaxLiveCallers == 2

LiveCallers == 1..MaxLiveCallers

LoopFs == (<<R, B, L>> :> LinkNode(<<R>>)) @@ StartFs(1)

LivePaths == {D}

LiveFolders == {<<>>, B \o <<SEP>> \o L}

LiveContents == {payload}

InitLive ==
    /\ fs = LoopFs
    /\ payload = Str(<<"u">>, 0)
    /\ call = NoCall
    /\ res = NoReply
    /\ progress = <<>>
    /\ deleted = {}
    /\ deletedClean = {}
    /\ waiting = NobodyWaiting
    /\ db = NoDb

BeginAnalyse(p, path) ==
    LET req == RequestBy(p, "begin", "folder_analysis", path, NoContent)
    IN  /\ Begun(p, req, analysis_checks(fs, req))
        /\ UNCHANGED <<payload, deleted, deletedClean>>

ResumeAnalyse(p) ==
    /\ waiting[p].op = "folder_analysis"
    /\ Resumed(p, ResumeRequest(p),
               analysis_action(fs, waiting[p].safe_path, ResumeRequest(p)))
    /\ UNCHANGED <<payload, deleted, deletedClean>>

ResumeLive(p) ==
    \/ ResumeRead(p)
    \/ ResumeWrite(p)
    \/ ResumeDelete(p)
    \/ ResumeAnalyse(p)

NextLive ==
    \E p \in LiveCallers :
        \/ \E path \in LivePaths : BeginRead(p, path)
        \/ \E path \in LivePaths, content \in LiveContents : BeginWrite(p, path, content)
        \/ \E path \in LivePaths : BeginDelete(p, path)
        \/ \E path \in LiveFolders : BeginAnalyse(p, path)
        \/ ResumeLive(p)

\* WF_vars(ResumeAnalyse(p)) with ENABLED <<ResumeAnalyse(p)>>_vars written
\* as the guard of the step, which is all that can keep it from being taken
AnalyseScheduled(p) ==
    \/ []<>(waiting[p].op # "folder_analysis")
    \/ []<><<ResumeAnalyse(p)>>_vars

Scheduled(p) ==
    /\ WF_vars(ResumeRead(p))
    /\ WF_vars(ResumeWrite(p))
    /\ WF_vars(ResumeDelete(p))
    /\ AnalyseScheduled(p)

SpecLive ==
    /\ InitLive
    /\ [][NextLive]_vars
    /\ \A p \in LiveCallers : Scheduled(p)

(***************************************************************************)
(* The async PostgreSQL server (async_postgressql_server.py).  Its tools   *)
(* share the global db_pool and run on one event loop, so one runs until   *)
(* it awaits and only then can another run.  A pool is open, closing (its  *)
(* close() has begun: acquire raises "pool is closing") or closed (acquire *)
(* raises "pool is closed"); close() ends once every connection taken from *)
(* the pool has been given back, and can raise.  `waiting' holds the       *)
(* suspended call of each caller with the await it is at and the pool it   *)
(* holds.                                                                  *)
(***************************************************************************)
MaxPools == 3
MaxDbCallers == 2

DbCallers == 1..MaxDbCallers

DbNames == {"", "x"}

QueryTools == {"execute_query", "list_tables", "describe_table"}

MsgNameRequired == "Database name is required"
MsgConnected == "Connected to database"
MsgConnectFailed == "Failed to connect to database"
MsgNoConnection == "No database connection established. Please connect to a database first."
MsgNothingToClose == "No active database connection to close"
MsgClosed == "Database connection closed successfully"
EPoolClosing == "pool is closing"
EPoolClosed == "pool is closed"
EQueryFailed == "query failed"
ECloseFailed == "close failed"

Warning(msg) == [status |-> "warning", message |-> msg]
Success(msg) == [status |-> "success", message |-> msg]

\* the server as main leaves it (line 344): init_db_pool() has made the
\* first pool, or has failed
InitDb ==
    /\ db \in {NoDb, [db_pool |-> 1, pools |-> <<"open">>]}
    /\ fs = StartFs(0)
    /\ payload = Str(<<"u">>, 0)
    /\ call = NoCall
    /\ res = NoReply
    /\ progress = <<>>
    /\ deleted = {}
    /\ deletedClean = {}
    /\ waiting = NobodyWaiting

RequestDb(p, step, op, db_name) ==
    [op |-> op, caller |-> p, step |-> step, db_name |-> db_name]

\* the call of caller p is suspended at an await, holding `pool'
Suspend(p, req, at, pool) ==
    /\ res' = Pending
    /\ waiting' = [waiting EXCEPT ![p] =
           [op |-> req.op, at |-> at, pool |-> pool, db_name |-> req.db_name]]

\* the call of caller p returns r
Return(p, r) ==
    /\ res' = r
    /\ waiting' = [waiting EXCEPT ![p] = Idle]

\* caller p is suspended in tool op at the await `at'
At(p, op, at) == waiting[p].op = op /\ waiting[p].at = at

ResumeDb(p) == RequestDb(p, "resume", waiting[p].op, waiting[p].db_name)

\* a connection taken from the pool is still out
Held(pool) ==
    \E q \in Callers : /\ waiting[q].op \in QueryTools
                       /\ waiting[q].at = "querying"
                       /\ waiting[q].pool = pool

\* asyncpg Pool.close() up to its first await
close_begun(pools, pool) ==
    IF pools[pool] = "open" THEN [pools EXCEPT ![pool] = "closing"] ELSE pools

\* asyncpg Pool.close() ended, with or without an exception
close_ended(pools, pool) == [pools EXCEPT ![pool] = "closed"]

\* connect_database, lines 169-176, and init_db_pool, lines 45-49
ConnectBegin(p, db_name) ==
    LET req == RequestDb(p, "begin", "connect_database", db_name)
    IN  /\ waiting[p] = Idle
        /\ call' = req
        /\ IF db_name = ""
           THEN /\ Return(p, Error(MsgNameRequired))
                /\ UNCHANGED db
           ELSE IF db.db_pool = NoPool
           THEN /\ Suspend(p, req, "creating", NoPool)
                /\ UNCHANGED db
           ELSE IF db.pools[db.db_pool] = "closed"
           THEN /\ Suspend(p, req, "creating", NoPool)
                /\ db' = [db EXCEPT !.db_pool = NoPool]
           ELSE /\ Suspend(p, req, "closing", db.db_pool)
                /\ db' = [db EXCEPT !.pools = close_begun(db.pools, db.db_pool)]
        /\ UNCHANGED <<fs, progress, payload, deleted, deletedClean>>

\* init_db_pool, lines 48-49, and connect_database, lines 185-187 when
\* close() raises
ConnectClosed(p) ==
    /\ At(p, "connect_database", "closing")
    /\ ~Held(waiting[p].pool)
    /\ call' = ResumeDb(p)
    /\ \/ /\ db' = [db_pool |-> NoPool,
                    pools |-> close_ended(db.pools, waiting[p].pool)]
          /\ Suspend(p, ResumeDb(p), "creating", NoPool)
       \/ /\ db' = [db EXCEPT !.pools = close_ended(db.pools, waiting[p].pool)]
          /\ Return(p, Error(ECloseFailed))
    /\ UNCHANGED <<fs, progress, payload, deleted, deletedClean>>

\* init_db_pool, lines 51-65, and connect_database, lines 177-184
ConnectCreated(p) ==
    /\ At(p, "connect_database", "creating")
    /\ call' = ResumeDb(p)
    /\ \/ /\ Len(db.pools) < MaxPools
          /\ db' = [db_pool |-> Len(db.pools) + 1, pools |-> Append(db.pools, "open")]
          /\ Return(p, Success(MsgConnected))
       \/ /\ Return(p, Error(MsgConnectFailed))
          /\ UNCHANGED db
    /\ UNCHANGED <<fs, progress, payload, deleted, deletedClean>>

\* execute_query from its test of db_pool to the connection it takes,
\* lines 207-212, with its except block, lines 233-235
Acquire(p, req) ==
    /\ call' = req
    /\ IF db.db_pool = NoPool THEN Return(p, Error(MsgNoConnection))
       ELSE IF db.pools[db.db_pool] = "closing" THEN Return(p, Error(EPoolClosing))
       ELSE IF db.pools[db.db_pool] = "closed" THEN Return(p, Error(EPoolClosed))
       ELSE Suspend(p, req, "querying", db.db_pool)
    /\ UNCHANGED <<db, fs, progress, payload, deleted, deletedClean>>

\* execute_query, lines 204-212
ExecuteBegin(p) ==
    /\ waiting[p] = Idle
    /\ Acquire(p, RequestDb(p, "begin", "execute_query", ""))

\* list_tables, lines 252-257, and describe_table, lines 281-286: the test
\* of db_pool, then the call of execute_query, which awaits ctx.info first
ListBegin(p, op) ==
    LET req == RequestDb(p, "begin", op, "")
    IN  /\ waiting[p] = Idle
        /\ call' = req
        /\ IF db.db_pool = NoPool THEN Return(p, Error(MsgNoConnection))
           ELSE Suspend(p, req, "entered", db.db_pool)
        /\ UNCHANGED <<db, fs, progress, payload, deleted, deletedClean>>

\* list_tables, line 265, and describe_table, line 302: execute_query
ListExecute(p) ==
    /\ waiting[p].op \in {"list_tables", "describe_table"}
    /\ waiting[p].at = "entered"
    /\ Acquire(p, ResumeDb(p))

\* execute_query, lines 213-235: the query has run or has failed
QueryDone(p) ==
    /\ waiting[p].op \in QueryTools
    /\ waiting[p].at = "querying"
    /\ call' = ResumeDb(p)
    /\ \E r \in {[status |-> "success"], Error(EQueryFailed)} : Return(p, r)
    /\ UNCHANGED <<db, fs, progress, payload, deleted, deletedClean>>

\* close_connection, lines 320-329: the task that will run close() is made
CloseBegin(p) ==
    LET req == RequestDb(p, "begin", "close_connection", "")
    IN  /\ waiting[p] = Idle
        /\ call' = req
        /\ IF db.db_pool = NoPool THEN Return(p, Warning(MsgNothingToClose))
           ELSE Suspend(p, req, "scheduled", db.db_pool)
        /\ UNCHANGED <<db, fs, progress, payload, deleted, deletedClean>>

\* close_connection, line 329: the task starts close()
CloseStarted(p) ==
    /\ At(p, "close_connection", "scheduled")
    /\ call' = ResumeDb(p)
    /\ Suspend(p, ResumeDb(p), "closing", waiting[p].pool)
    /\ db' = [db EXCEPT !.pools = close_begun(db.pools, waiting[p].pool)]
    /\ UNCHANGED <<fs, progress, payload, deleted, deletedClean>>

\* close_connection, lines 329-335: close() has ended
CloseDone(p) ==
    /\ At(p, "close_connection", "closing")
    /\ ~Held(waiting[p].pool)
    /\ call' = ResumeDb(p)
    /\ \/ /\ db' = [db_pool |-> NoPool,
                    pools |-> close_ended(db.pools, waiting[p].pool)]
          /\ Return(p, Success(MsgClosed))
       \/ /\ db' = [db EXCEPT !.pools = close_ended(db.pools, waiting[p].pool)]
          /\ Return(p, Error(ECloseFailed))
    /\ UNCHANGED <<fs, progress, payload, deleted, deletedClean>>

NextDb ==
    \E p \in DbCallers :
        \/ \E db_name \in DbNames : ConnectBegin(p, db_name)
        \/ ConnectClosed(p)
        \/ ConnectCreated(p)
        \/ ExecuteBegin(p)
        \/ \E op \in {"list_tables", "describe_table"} : ListBegin(p, op)
        \/ ListExecute(p)
        \/ QueryDone(p)
        \/ CloseBegin(p)
        \/ CloseStarted(p)
        \/ CloseDone(p)

SpecDb == InitDb /\ [][NextDb]_vars

(***************************************************************************)
(* The tools called with the ways of naming the root itself.               *)
(***************************************************************************)
MaxRootFiles == 2

RootPaths ==
    { <<>>, DOT, <<SEP>>, DOT \o <<SEP>>, D \o <<SEP>> \o DOTDOT,
      B \o <<SEP>> \o DOTDOT \o <<SEP>> \o DOT }

RootCallPaths == RootPaths \cup {D \o <<SEP>> \o F}

InitRoot ==
    /\ \E n \in 0..MaxRootFiles : fs = StartFs(n)
    /\ payload = Str(<<"u">>, 0)
    /\ call = NoCall
    /\ res = NoReply
    /\ progress = <<>>
    /\ deleted = {}
    /\ deletedClean = {}
    /\ waiting = NobodyWaiting
    /\ db = NoDb

NextRoot ==
    \E path \in RootCallPaths :
        \/ Read(path)
        \/ \E content \in ContentInputs : Write(path, content)
        \/ Delete(path)
        \/ Analyse(path)

SpecRoot == InitRoot /\ [][NextRoot]_vars

(***************************************************************************)
(* The path check on its own: sanitize_path applied to every path of at    *)
(* most MaxSegs components, each with every leading run of separators.     *)
(***************************************************************************)
PathSegs == {DOTDOT, DOT, R, R2, E, P, L, D, F}

Leads ==
    { <<>>, <<SEP>>, <<SEP, SEP>>, <<BACKSLASH>>, <<BACKSLASH, SEP>>,
      <<SEP, BACKSLASH>>, <<BACKSLASH, SEP, SEP>> }

RECURSIVE SegSeqs(_)
SegSeqs(n) ==
    IF n = 0 THEN {<<>>}
    ELSE SegSeqs(n - 1)
           \cup {Append(q, g) : q \in {u \in SegSeqs(n - 1) : Len(u) = n - 1}, g \in PathSegs}

PathInputs == {lead \o join_str(SEP, segs) : lead \in Leads, segs \in SegSeqs(MaxSegs)}

\* the call of sanitize_path on the path drawn at the start: the safe path
\* it returns, or its ValueError
SanitizeCall ==
    LET sp == sanitize_path(call.path)
    IN  /\ call.op = "sanitize_path"
        /\ res = NoReply
        /\ res' = IF sp.ok THEN [status |-> "returned", path |-> sp.path]
                  ELSE Error(sp.message)
        /\ UNCHANGED <<fs, call, progress, payload, deleted, deletedClean, waiting, db>>

InitPath ==
    /\ fs = StartFs(0)
    /\ payload = Str(<<"a">>, 0)
    /\ \E path \in PathInputs : call = Request("sanitize_path", path, NoContent)
    /\ res = NoReply
    /\ progress = <<>>
    /\ deleted = {}
    /\ deletedClean = {}
    /\ waiting = NobodyWaiting
    /\ db = NoDb

NextPath == SanitizeCall

SpecPath == InitPath /\ [][NextPath]_vars

(***************************************************************************)
(* Notions the claims are stated with.                                     *)
(***************************************************************************)
PathViolation == Error(MsgOutside)
NotFound == Error(MsgNotFound)
TooLargeError == Error(MsgTooLarge)
ValidationError == Error(MsgContentRequired)

\* node n is the root or lies below it, component by component
InsideRoot(n) == AtOrBelow(n, RootNode)

\* the input with its whole leading run of separators removed
RECURSIVE StripSeparators(_)
StripSeparators(path) ==
    IF path # <<>> /\ Head(path) \in {SEP, BACKSLASH}
    THEN StripSeparators(Tail(path)) ELSE path

\* where the input leads when it is taken relative to the root and its
\* "." and ".." are resolved, links aside
LexicalTarget(path) ==
    Names(normpath(ALLOWED_BASE_PATH \o <<SEP>> \o StripSeparators(path)))

\* the input has a ".." segment or starts with a separator
HasDotDot(path) == \E k \in 1..Len(split(path, SEP)) : split(path, SEP)[k] = DOTDOT
IsOverride(path) == path # <<>> /\ Head(path) \in {SEP, BACKSLASH}

\* C1: every input with ".." segments or an absolute-path override that
\* resolves outside the root is answered with PathViolation, never a path.
C1_EscapeRejected ==
    (/\ call.op = "sanitize_path"
     /\ res # NoReply
     /\ HasDotDot(call.path) \/ IsOverride(call.path)
     /\ ~InsideRoot(LexicalTarget(call.path)))
        => res = PathViolation

\* the input, taken relative to the root, passes through a link that lies
\* inside the root and leads outside it
ThroughLinkOut(f, path) ==
    LET names == LexicalTarget(path)
    IN  \E k \in 1..Len(names) :
            LET n == SubSeq(names, 1, k)
            IN  /\ InsideRoot(n)
                /\ n \in DOMAIN f
                /\ f[n].kind = "link"
                /\ ~InsideRoot(f[n].target)

\* C2: an input that passes through a link from inside the root to outside
\* it is answered with PathViolation.
C2_LinkEscapeRejected ==
    (call.op = "sanitize_path" /\ res # NoReply /\ ThroughLinkOut(fs, call.path))
        => res = PathViolation

\* C3: a path is returned only when the root's components are a prefix of
\* the components of the returned path; a sibling whose name extends the
\* root's name is refused.
C3_ComponentPrefix ==
    (call.op = "sanitize_path" /\ res.status = "returned")
        => InsideRoot(Names(res.path))

\* the nodes a step created, removed or changed
Changed(f, g) ==
    {n \in DOMAIN f \cup DOMAIN g :
        n \notin DOMAIN f \/ n \notin DOMAIN g \/ f[n] # g[n]}

\* C4: whatever the calls and their paths, every file or directory a call
\* creates, overwrites or removes lies at or below the root.
C4_Confinement == [][\A n \in Changed(fs, fs') : InsideRoot(n)]_vars

\* the request names a path that sanitize_path accepts and that lies at or
\* below the root
Confined(path) == sanitize_path(path).ok /\ InsideRoot(LexicalTarget(path))

\* C5: a file_write of a non-empty content within MAX_FILE_SIZE to a
\* confined path that succeeds, followed at once by a file_read of the same
\* path, gives success with exactly the content written.
C5_RoundTrip ==
    [][(/\ call.op = "file_write"
        /\ res.status = "success"
        /\ Confined(call.path)
        /\ ByteSize(call.content) <= MAX_FILE_SIZE
        /\ call'.op = "file_read"
        /\ call'.path = call.path)
           => (/\ res'.status = "success"
               /\ Canon(res'.content) = Canon(call.content))]_vars

\* C6, as claimed: once file_delete of P has succeeded and no file_write to
\* P has happened since, every later file_delete and file_read of P answers
\* NotFound.
C6_DeleteIdempotent ==
    [][(/\ call'.op \in {"file_delete", "file_read"}
        /\ TargetOf(fs, call'.path) \cap deleted # {})
           => res' = NotFound]_vars

\* C6, amended: once file_delete of P has succeeded and no file_write to P
\* or to a path below P has happened since, every later file_delete and
\* file_read of P answers NotFound (so no second success).
C6_DeleteIdempotentAmended ==
    [][(/\ call'.op \in {"file_delete", "file_read"}
        /\ TargetOf(fs, call'.path) \cap deletedClean # {})
           => res' = NotFound]_vars

\* a second file_delete of a deleted path has answered NotFound
C6_Witness ==
    /\ call.op = "file_delete"
    /\ res = NotFound
    /\ TargetOf(fs, call.path) \cap deletedClean # {}

\* C7: file_read of an existing regular file answers TooLarge exactly when
\* the file's size exceeds MAX_FILE_SIZE, and then carries no content; it
\* succeeds at exactly MAX_FILE_SIZE bytes and fails one byte above.
C7_ReadSizeBoundary ==
    \A sp \in {sanitize_path(call.path)} :
        (call.op = "file_read" /\ sp.ok /\ isfile(fs, sp.path))
            => LET size == getsize(fs, sp.path)
               IN  /\ (res = TooLargeError) <=> (size > MAX_FILE_SIZE)
                   /\ size = MAX_FILE_SIZE => res.status = "success"
                   /\ size = MAX_FILE_SIZE + 1 => res = TooLargeError
                   /\ res = TooLargeError => "content" \notin DOMAIN res

\* a file of exactly MAX_FILE_SIZE bytes, one of them in a two-byte
\* character, has been read
C7_Witness ==
    /\ call.op = "file_read"
    /\ res.status = "success"
    /\ ByteSize(EncodeText(res.content)) = MAX_FILE_SIZE
    /\ res.content.text # <<>>

\* the regular files anywhere below a node, and the sum of their sizes
FilesUnder(f, node) ==
    {n \in DOMAIN f : n # node /\ AtOrBelow(n, node) /\ f[n].kind = "file"}

RECURSIVE SizeSum(_, _)
SizeSum(f, nodes) ==
    IF nodes = {} THEN 0
    ELSE LET n == CHOOSE m \in nodes : TRUE
         IN  ByteSize(f[n].data) + SizeSum(f, nodes \ {n})

\* C8: a successful folder_analysis reports the number of regular files
\* anywhere under the directory and the sum of their sizes, truncated
\* listing or not.
C8_AnalysisTotals ==
    \A sp \in {sanitize_path(call.path)} :
        (call.op = "folder_analysis" /\ res.status = "success")
            => LET under == FilesUnder(fs, NodeOf(fs, sp.path))
               IN  /\ res.file_count = Cardinality(under)
                   /\ res.total_size = SizeSum(fs, under)

\* an analysis of more files than the listing holds, in several directories
C8_Witness ==
    /\ call.op = "folder_analysis"
    /\ res.status = "success"
    /\ res.file_count > ListingCap
    /\ Len(res.files) = ListingCap
    /\ <<R, D, F>> \in DOMAIN fs
    /\ res.total_size > res.file_count

\* the records of every file of the walk from a path, in traversal order
RECURSIVE RecordsOf(_, _)
RecordsOf(f, walked) ==
    IF walked = <<>> THEN <<>>
    ELSE [i \in 1..Len(Head(walked).filenames) |->
              FileRecord(f, Head(walked).root, Head(walked).filenames[i])]
             \o RecordsOf(f, Tail(walked))

Min(a, b) == IF a < b THEN a ELSE b

\* the listing is the first min(file_count, 50) records of the traversal
ListingIsPrefix(f, r, safe_path) ==
    /\ Len(r.files) = Min(r.file_count, ListingCap)
    /\ r.files = SubSeq(RecordsOf(f, walk(f, safe_path)), 1, Len(r.files))

C10_EmptyContentRefused ==
    [][(call'.op = "file_write" /\ ~Truthy(call'.content))
           => (res' = ValidationError /\ fs' = fs)]_vars

\* an empty content has been refused for a path whose directory is missing
C10_Witness ==
    /\ call.op = "file_write"
    /\ call.content = Str(<<>>, 0)
    /\ call.path = D \o <<SEP>> \o F
    /\ res = ValidationError
    /\ <<R, D>> \notin DOMAIN fs

NotAFile == Error(MsgNotAFile)
Tools == {"file_read", "file_write", "file_delete", "folder_analysis"}

\* C11: file_delete of a path that names a directory answers NotAFile and
\* leaves the file system as it was; no step removes a directory or turns
\* it into something else.
C11_DirectoriesKept ==
    [][/\ \A n \in DOMAIN fs :
              fs[n].kind = "dir" => (n \in DOMAIN fs' /\ fs'[n].kind = "dir")
       /\ \A sp \in {sanitize_path(call'.path)} :
              (call'.op = "file_delete" /\ sp.ok /\ isdir(fs, sp.path))
                  => (res' = NotAFile /\ fs' = fs)]_vars

\* the directory "d", holding the file "f", has been refused
C11_Witness ==
    /\ call.op = "file_delete"
    /\ call.path = D
    /\ res = NotAFile
    /\ <<R, D, F>> \in DOMAIN fs

\* C12: a call of any of the four tools whose path sanitize_path refuses
\* leaves the file system, inside and outside the root, as it was, and is
\* answered with PathViolation (a file_write without content with
\* ValidationError).
C12_RefusalTouchesNothing ==
    [][(call'.op \in Tools /\ ~sanitize_path(call'.path).ok)
           => /\ fs' = fs
              /\ \/ res' = PathViolation
                 \/ call'.op = "file_write" /\ ~Truthy(call'.content)
                       /\ res' = ValidationError]_vars

\* file_delete of "../e/p" has been refused while "/e/p" exists
C12_Witness ==
    /\ call.op = "file_delete"
    /\ call.path = DOTDOT \o <<SEP>> \o E \o <<SEP>> \o P
    /\ res = PathViolation
    /\ <<E, P>> \in DOMAIN fs

\* a name above the last one of a path is taken by something that is not a
\* directory
BlockedAbove(f, p) ==
    \E k \in 1..(Len(Names(p)) - 1) :
        LET n == Resolve(f, <<>>, SubSeq(Names(p), 1, k))
        IN  n \in DOMAIN f /\ f[n].kind # "dir"

\* the conditions under which each tool cannot do what it is asked
Fails(f, req) ==
    LET sp == sanitize_path(req.path)
    IN  \/ ~sp.ok
        \/ req.op = "file_read"
              /\ (~isfile(f, sp.path) \/ getsize(f, sp.path) > MAX_FILE_SIZE)
        \/ req.op = "file_write"
              /\ (~Truthy(req.content) \/ isdir(f, sp.path) \/ BlockedAbove(f, sp.path))
        \/ req.op = "file_delete" /\ ~isfile(f, sp.path)
        \/ req.op = "folder_analysis" /\ ~isdir(f, sp.path)

Messages ==
    { MsgOutside, MsgNotFound, MsgNotAFile, MsgTooLarge, MsgContentRequired,
      MsgFolderNotFound, MsgNotADirectory, ENOENT, EEXIST, ENOTDIR, EISDIR }

C15_ProgressMonotone ==
    (call.op = "folder_analysis" /\ res.status = "success")
        => /\ progress # <<>>
           /\ progress[1] = 0
           /\ progress[Len(progress)] = 100
           /\ \A i \in 1..(Len(progress) - 1) : progress[i] <= progress[i + 1]

\* the tool a request names, run with a context that never fails
Handled(f, req) ==
    CASE req.op = "file_read" -> file_read(f, req)
      [] req.op = "file_write" -> file_write(f, req)
      [] req.op = "file_delete" -> file_delete(f, req)
      [] req.op = "folder_analysis" -> folder_analysis(f, req)

\* C16: whatever the context does to the notifications of a call, the call
\* returns the result and has the effect on the file system that it has with
\* a context that never fails, and no tick is delivered twice.
C16_NotificationsIgnored ==
    [][call'.op \in Tools
           => /\ res' = Handled(fs, call').result
              /\ fs' = Handled(fs, call').fs
              /\ Len(progress') <= Len(Handled(fs, call').progress)]_vars

\* an error reply: the status "error" and a message, nothing else
IsErrorReply(r) == DOMAIN r = {"status", "message"} /\ r.status = "error"

\* the step taken resumes a suspended call of the tool op
Resumes(op) == "step" \in DOMAIN call' /\ call'.step = "resume" /\ call'.op = op

\* the last step taken resumed a suspended call of the tool op
HasResumed(op) == "step" \in DOMAIN call /\ call.step = "resume" /\ call.op = op

\* C17: a file_read or a file_delete that was suspended after its checks and
\* finds, when it resumes, that the file is gone is answered with an error
\* reply, never with success and never with an exception.
C17_VanishedFileIsError ==
    [][((Resumes("file_read") \/ Resumes("file_delete"))
            /\ ~exists(fs, waiting[call'.caller].safe_path))
           => IsErrorReply(res')]_vars

\* a suspended file_read has resumed after the file was deleted
C17_Witness ==
    /\ HasResumed("file_read")
    /\ res = Error(ENOENT)
    /\ TargetOf(fs, call.path) \cap deleted # {}

\* C18: a file_delete succeeds only by removing a file that is there, so of
\* the calls in flight on one file at most one succeeds; one that resumes
\* after the file was deleted, with no write since, is answered with an
\* error reply.
C18_OneDeleteSucceeds ==
    [][Resumes("file_delete")
           => \A n \in TargetOf(fs, call'.path) :
                  /\ res'.status = "success"
                         => (n \in DOMAIN fs /\ n \notin DOMAIN fs' /\ n \notin deleted)
                  /\ n \in deleted => IsErrorReply(res')]_vars

\* a suspended file_delete has resumed after another one removed the file,
\* with a third still suspended
C18_Witness ==
    /\ HasResumed("file_delete")
    /\ res = Error(ENOENT)
    /\ TargetOf(fs, call.path) \cap deleted # {}
    /\ \E p \in Callers : waiting[p].op = "file_delete"

\* C19, as claimed: every successful file_read returns content of at most
\* MAX_FILE_SIZE bytes, whatever is written while it is suspended.
C19_ReadBounded ==
    (HasResumed("file_read") /\ res.status = "success")
        => ByteSize(EncodeText(res.content)) <= MAX_FILE_SIZE

\* C19, amended: a successful file_read whose file holds, when the call
\* resumes, what it held at the size check returns content of at most
\* MAX_FILE_SIZE bytes.
C19_ReadBoundedUnlessOverwritten ==
    [][(Resumes("file_read") /\ res'.status = "success"
            /\ Holds(fs, waiting[call'.caller].safe_path)
                   = waiting[call'.caller].checked)
           => ByteSize(EncodeText(res'.content)) <= MAX_FILE_SIZE]_vars

\* a file_read has resumed and succeeded with a file_write of a content over
\* the limit to the same path still suspended
C19_Witness ==
    /\ HasResumed("file_read")
    /\ res.status = "success"
    /\ \E p \in Callers :
           /\ waiting[p].op = "file_write"
           /\ waiting[p].path = call.path
           /\ ByteSize(EncodeText(waiting[p].content)) > MAX_FILE_SIZE

\* C20: a file_read in flight together with writes returns one of the
\* contents written, whole, and a file written by calls in flight holds one
\* of the contents written.
C20_WriteAtomic ==
    [][/\ (Resumes("file_read") /\ res'.status = "success")
              => res'.content \in {Canon(c) : c \in ConcContents}
       /\ \A n \in TargetOf(fs', call'.path) :
              (n \in DOMAIN fs' /\ fs'[n].kind = "file")
                  => fs'[n].data \in {EncodeText(c) : c \in ConcContents}]_vars

\* C20 with the line ends of the contents set aside: what a file_read
\* returns is what decoding one of the contents written gives.
C20_WriteAtomicDecoded ==
    [][(Resumes("file_read") /\ res'.status = "success")
           => res'.content \in {DecodeText(EncodeText(c)) : c \in ConcContents}]_vars

\* C21: a file_write that succeeds leaves the file holding exactly the
\* content written, whatever the file held before and however long that
\* was, and its reply carries the path as the caller gave it.
C21_WriteOverwrites ==
    [][(Resumes("file_write") /\ res'.status = "success")
           => /\ \A n \in TargetOf(fs', call'.path) :
                     /\ n \in DOMAIN fs'
                     /\ fs'[n] = FileNode(call'.content)
              /\ res'.path = call'.path]_vars

\* a file_write has replaced a content by a shorter one: a file_read still
\* suspended has seen the longer content
C21_Witness ==
    /\ HasResumed("file_write")
    /\ res.status = "success"
    /\ \E p \in Callers, n \in TargetOf(fs, call.path) :
           /\ waiting[p].op = "file_read"
           /\ waiting[p].path = call.path
           /\ n \in DOMAIN fs
           /\ ByteSize(waiting[p].checked) > ByteSize(fs[n].data)

OnlyError(r, prog, f, g) ==
    /\ DOMAIN r = {"status", "message"}
    /\ prog = <<>>
    /\ g = f

\* C23: file_read tests confinement, then existence, then the type, then
\* the size: a path outside the root is answered PathViolation whatever it
\* names, a missing path NotFound, a path that is not a regular file
\* NotAFile, a file over the limit TooLarge; each of these with no content,
\* no progress report and no file opened.
C23_ReadChecksInOrder ==
    [][call'.op = "file_read"
           => \A sp \in {sanitize_path(call'.path)} :
                  /\ ~sp.ok => res' = PathViolation
                  /\ (sp.ok /\ ~exists(fs, sp.path)) => res' = NotFound
                  /\ (sp.ok /\ exists(fs, sp.path) /\ ~isfile(fs, sp.path))
                         => res' = NotAFile
                  /\ (sp.ok /\ isfile(fs, sp.path)
                        /\ getsize(fs, sp.path) > MAX_FILE_SIZE)
                         => res' = TooLargeError
                  /\ res' \in {PathViolation, NotFound, NotAFile, TooLargeError}
                         => OnlyError(res', progress', fs, fs')]_vars

\* file_read of the directory "d" has been refused
C23_Witness ==
    /\ call.op = "file_read"
    /\ progress = <<>>
    /\ res = NotAFile
    /\ call.path = D
    /\ isdir(fs, ALLOWED_BASE_PATH \o <<SEP>> \o D)

\* a directory at or below a node that cannot be listed
ClosedUnder(f, node) ==
    {n \in DOMAIN f : AtOrBelow(n, node) /\ f[n].kind = "dir" /\ "mode" \in DOMAIN f[n]}

\* C24: folder_analysis of a missing path answers NotFound and of a path
\* that is not a directory NotADirectory, with no counts and no listing;
\* it never answers with success when a directory of the traversal could
\* not be read.
C24_AnalysisFailsWhole ==
    \A sp \in {sanitize_path(call.path)} :
        (call.op = "folder_analysis" /\ sp.ok)
            => /\ ~exists(fs, sp.path) => res = Error(MsgFolderNotFound)
               /\ (exists(fs, sp.path) /\ ~isdir(fs, sp.path))
                      => res = Error(MsgNotADirectory)
               /\ res.status = "success"
                      => ClosedUnder(fs, NodeOf(fs, sp.path)) = {}

\* what SanitizeCall answers for an outcome of sanitize_path
Answer(sp) ==
    IF sp.ok THEN [status |-> "returned", path |-> sp.path] ELSE Error(sp.message)

\* C25: an input that starts with a run of "/" and "\", in any order, gets
\* the answer of the input with that run removed.
C25_LeadingSeparatorsStripped ==
    (call.op = "sanitize_path" /\ res # NoReply /\ IsOverride(call.path))
        => res = Answer(sanitize_path(StripSeparators(call.path)))

\* C26: an input that leads exactly to the root is accepted by
\* sanitize_path, with the root as the safe path; folder_analysis of it
\* counts every file under the root, and file_read, file_write and
\* file_delete of it are answered with an error other than PathViolation and
\* change nothing.
C26_RootAccepted ==
    [][(call'.op \in Tools /\ LexicalTarget(call'.path) = RootNode)
           => /\ sanitize_path(call'.path) = [ok |-> TRUE, path |-> ALLOWED_BASE_PATH]
              /\ call'.op = "folder_analysis"
                     => /\ res'.status = "success"
                        /\ res'.file_count = Cardinality(FilesUnder(fs, RootNode))
              /\ call'.op # "folder_analysis"
                     => /\ IsErrorReply(res')
                        /\ res' # PathViolation
                        /\ fs' = fs]_vars

\* file_write to "d/.." has failed on the root being a directory, with
\* files under the root
C26_Witness ==
    /\ call.op = "file_write"
    /\ call.path = D \o <<SEP>> \o DOTDOT
    /\ res = Error(EISDIR)
    /\ FilesUnder(fs, RootNode) # {}

\* the directories a walk from top lists, as nodes
WalkedNodes(f, top) ==
    LET w == walk(f, top) IN [i \in 1..Len(w) |-> NodeOf(f, w[i].root)]

\* no node comes twice in the sequence
NoRepeat(seq) == \A i, j \in 1..Len(seq) : i # j => seq[i] # seq[j]

\* the step just taken has run the action of a suspended call
ActionRun == "step" \in DOMAIN call /\ call.step = "resume"

\* C27: every call that has begun is answered in the end; the walk of
\* folder_analysis lists no directory twice, links that lead back into the
\* tree included; and the step that runs the action of a call ends the
\* call with its answer, success or error, so that the action is never run
\* a second time.
C27_RunsOnce ==
    /\ \A p \in LiveCallers : (waiting[p] # Idle) ~> (waiting[p] = Idle)
    /\ [](\A path \in LiveFolders :
              sanitize_path(path).ok /\ isdir(fs, sanitize_path(path).path)
                  => NoRepeat(WalkedNodes(fs, sanitize_path(path).path)))
    /\ [][ActionRun' => /\ waiting[call'.caller] # Idle
                        /\ waiting'[call'.caller] = Idle
                        /\ res'.status \in {"success", "error"}]_vars

\* folder_analysis of "b/l", the link back to the root, has been answered
\* with the one file of the tree while another call was suspended
C27_Witness ==
    /\ ActionRun
    /\ call.op = "folder_analysis"
    /\ call.path = B \o <<SEP>> \o L
    /\ res.status = "success"
    /\ res.file_count = 1
    /\ \E p \in LiveCallers : waiting[p] # Idle

\* db_pool is a pool that can be used
Active(d) == d.db_pool # NoPool /\ d.pools[d.db_pool] = "open"

\* the step just taken (primed) is one in which a query tool tests db_pool:
\* any step of a query tool but the one that ends its query
TestsPool == call'.op \in QueryTools /\ waiting[call'.caller] # waiting'[call'.caller]
                 /\ ~(waiting[call'.caller].op \in QueryTools
                        /\ waiting[call'.caller].at = "querying")

\* C28: in the async PostgreSQL server, execute_query, list_tables and
\* describe_table answer "No database connection established" whenever no
\* pool is active, and no connection is asked of a pool that is closing or
\* closed; no pool is active after a close_connection that succeeded or
\* after a connect_database (with a name) that failed; close_connection
\* without an active pool answers with the warning and changes nothing.
C28_PoolProtocol ==
    [][/\ (TestsPool /\ ~Active(db)) => res' = Error(MsgNoConnection)
       /\ call'.op \in QueryTools
              => res' \notin {Error(EPoolClosing), Error(EPoolClosed)}
       /\ (call'.op = "close_connection" /\ res'.status = "success")
              => ~Active(db')
       /\ (call'.op = "connect_database" /\ call'.db_name # ""
               /\ res'.status = "error")
              => ~Active(db')
       /\ (call'.op = "close_connection" /\ call'.step = "begin" /\ ~Active(db))
              => /\ res' = Warning(MsgNothingToClose)
                 /\ db' = db
                 /\ waiting' = waiting]_vars

=============================================================================
